---- MODULE Spec2Model ----
(***************************************************************************)
(* A model of gdata_array.py: the Worksheet cache (header rows, data rows, *)
(* max column, cached list feed) over a remote spreadsheet reached through *)
(* GetCellsFeed / GetListFeed / UpdateCell / InsertRow / DeleteRow.         *)
(*                                                                         *)
(* Texts are sequences of one-character strings, so that the conversions   *)
(* of the code ('%s' % val, re.sub, int(key)) are computed, not assumed.   *)
(* Python indices are 0-based; sequences here are 1-based, and every       *)
(* definition says which of the two an argument is.                        *)
(***************************************************************************)
EXTENDS Integers, Sequences, FiniteSets, TLC

VARIABLES remote,       \* the remote cells: a set of [row, col, text], text non-empty
          nheaders,     \* Worksheet.nheaders
          has_data,     \* Worksheet._cells_feed != None
          header_rows,  \* Worksheet._header_rows: a sequence of Rows
          rows,         \* Worksheet._rows: a sequence of Rows
          max_col,      \* Worksheet._max_col
          list_feed,    \* Worksheet._list_feed: [loaded, entry]
          calls,        \* the remote calls the last operation issued, in order
          err,          \* the exception the last operation raised, or "none"
          op,           \* the last operation and its arguments
          clean,        \* no operation so far has raised
          steps,        \* number of operations run so far
          cells_feed,   \* Worksheet._cells_feed: the entries as fetched
          fetches,      \* number of GetCellsFeed calls made so far
          row_count,    \* the remote worksheet's row_count
          opened,       \* "no", "yes" (a Worksheet was returned) or the error
          doc_key,      \* the key worksheets() passed to GetWorksheetsFeed
          coltags,      \* the last result of Worksheet.get_coltags
          retry         \* the activation of UpdateCell's retry loop

vars == <<remote, nheaders, has_data, header_rows, rows, max_col, list_feed,
          calls, err, op, clean, steps, cells_feed, fetches, row_count, opened,
          doc_key, coltags, retry>>

----------------------------------------------------------------------------
(* Bounds of the model. *)

\* Number of operations in a run.
MaxOps == 2
\* Number of cached data rows at which append is no longer offered.
MaxDataRows == 3

(* Program constants. *)
num_tries == 5

----------------------------------------------------------------------------
(* Texts. *)

E == <<>>
SP == <<" ">>
Name == <<"N", "a", "m", "e">>
Age == <<"A", "g", "e">>
Ann == <<"A", "n", "n">>
Bob == <<"B", "o", "b">>
T30 == <<"3", "0">>
T31 == <<"3", "1">>

Digits == <<"0", "1", "2", "3", "4", "5", "6", "7", "8", "9">>

Lower == {"a", "b", "c", "d", "e", "f", "g", "h", "i", "j", "k", "l", "m",
          "n", "o", "p", "q", "r", "s", "t", "u", "v", "w", "x", "y", "z"}
Upper == {"A", "B", "C", "D", "E", "F", "G", "H", "I", "J", "K", "L", "M",
          "N", "O", "P", "Q", "R", "S", "T", "U", "V", "W", "X", "Y", "Z"}
DigitChars == {Digits[i] : i \in 1..10}

\* The characters the pattern [^a-zA-Z0-9\-] of get_coltags keeps.
TagChar(c) == c \in Lower \cup Upper \cup DigitChars \cup {"-"}

\* '%d' % n, for n >= 0.
RECURSIVE IntToText(_)
IntToText(n) ==
    IF n < 10 THEN <<Digits[n + 1]>>
    ELSE IntToText(n \div 10) \o <<Digits[(n % 10) + 1]>>

DigitValue(c) == CHOOSE d \in 0..9 : Digits[d + 1] = c

\* int(text) for a text of decimal digits; -1 stands for the ValueError.
RECURSIVE TextToInt(_)
TextToInt(t) ==
    IF t = E \/ \E i \in 1..Len(t) : t[i] \notin DigitChars THEN -1
    ELSE IF Len(t) = 1 THEN DigitValue(t[1])
    ELSE 10 * TextToInt(SubSeq(t, 1, Len(t) - 1)) + DigitValue(t[Len(t)])

----------------------------------------------------------------------------
(* Values the caller passes: None, a string, or an integer. *)

NoneV == [kind |-> "none", text |-> E, n |-> 0]
StrV(t) == [kind |-> "str", text |-> t, n |-> 0]
IntV(k) == [kind |-> "int", text |-> E, n |-> k]

\* Row.__setitem__ lines 713-716 and RowDataVal.__new__ lines 635-636:
\* None becomes '', anything else '%s' % val.
Normalize(v) ==
    IF v.kind = "none" THEN E
    ELSE IF v.kind = "int" THEN IntToText(v.n)
    ELSE v.text

----------------------------------------------------------------------------
(* Cells and Rows of the cache. *)

\* A slot of a Row: None, a Cell (a str with row and col attributes), or a
\* plain str put there by Worksheet.append's _set_local(val.icol, val.val).
NoSlot == [kind |-> "none", text |-> E, row |-> 0, col |-> 0]
Cell(t, r, c) == [kind |-> "cell", text |-> t, row |-> r, col |-> c]
PlainStr(t) == [kind |-> "str", text |-> t, row |-> 0, col |-> 0]

\* Python truth of a slot: None and '' are false.
Truthy(s) == s.kind # "none" /\ s.text # E

\* Row(worksheet, row): an empty list with the row attribute.
Row(n) == [row |-> n, cells |-> <<>>]

\* Row._set_local(icol, new_val), icol 0-based.
set_local(cells, icol, new_val) ==
    LET padded == IF Len(cells) <= icol
                  THEN cells \o [k \in 1..(icol + 1 - Len(cells)) |-> NoSlot]
                  ELSE cells
    IN [padded EXCEPT ![icol + 1] = new_val]

\* list.__getitem__ of Python with index ind (negative counts from the end);
\* the result is the 1-based position, 0 for an IndexError.
PyIndex(len, ind) ==
    IF ind >= 0 THEN (IF ind < len THEN ind + 1 ELSE 0)
    ELSE (IF len + ind >= 0 THEN len + ind + 1 ELSE 0)

\* Row.get_index_of_key(key) against the header cells: a key found in the
\* headers gives its first position, anything else int(key); -1 is KeyError.
HeaderIndex(hcells, t) ==
    IF \E i \in 1..Len(hcells) : hcells[i].kind # "none" /\ hcells[i].text = t
    THEN (CHOOSE i \in 1..Len(hcells) :
             /\ hcells[i].kind # "none" /\ hcells[i].text = t
             /\ \A j \in 1..(i - 1) : ~(hcells[j].kind # "none" /\ hcells[j].text = t)) - 1
    ELSE -1

get_index_of_key(hcells, key) ==
    IF key.kind = "int" THEN key.n
    ELSE IF key.kind = "str" /\ HeaderIndex(hcells, key.text) >= 0
         THEN HeaderIndex(hcells, key.text)
    ELSE IF key.kind = "str" THEN TextToInt(key.text)
    ELSE -1

\* Row.__getitem__(ind) for ind >= 0: the slot, or None past the end.
getitem(cells, ind) ==
    IF Len(cells) > ind THEN cells[ind + 1] ELSE NoSlot

\* "while (self and self[-1] == None): self.pop(-1)" of Row.__setitem__:
\* only None is popped, a '' is not.
RECURSIVE TrimNone(_)
TrimNone(cells) ==
    IF cells # <<>> /\ cells[Len(cells)].kind = "none"
    THEN TrimNone(SubSeq(cells, 1, Len(cells) - 1))
    ELSE cells

----------------------------------------------------------------------------
(* The remote spreadsheet, as the code's comments describe it: cells by    *)
(* (row, col); a cell feed of the non-empty cells; a list feed that takes  *)
(* row 1 as its header and stops at the first blank row (lines 341-342,    *)
(* 376-380); InsertRow, which adds after the content of the sheet (lines   *)
(* 529-531, 542-543) and may drop values silently (lines 560-562).         *)

RemoteText(rem, r, c) ==
    IF \E x \in rem : x.row = r /\ x.col = c
    THEN (CHOOSE x \in rem : x.row = r /\ x.col = c).text
    ELSE E

RemoteSet(rem, r, c, t) ==
    {x \in rem : ~(x.row = r /\ x.col = c)} \cup
    (IF t = E THEN {} ELSE {[row |-> r, col |-> c, text |-> t]})

RemoteRowBlank(rem, r) == ~\E x \in rem : x.row = r

\* The last row holding content; 0 for an empty sheet.
RemoteLastRow(rem) ==
    IF rem = {} THEN 0
    ELSE CHOOSE r \in {x.row : x \in rem} : \A x \in rem : x.row <= r

RemoteDeleteRow(rem, r) ==
    {x \in rem : x.row < r} \cup
    {[row |-> x.row - 1, col |-> x.col, text |-> x.text] : x \in {y \in rem : y.row > r}}

CellBefore(x, y) == x.row < y.row \/ (x.row = y.row /\ x.col < y.col)

\* GetCellsFeed: the non-empty cells in row-major order.
RECURSIVE CellFeed(_)
CellFeed(rem) ==
    IF rem = {} THEN <<>>
    ELSE LET first == CHOOSE x \in rem : \A y \in rem \ {x} : CellBefore(x, y)
         IN <<first>> \o CellFeed(rem \ {first})

\* One list-feed entry: the non-empty cells of a row, by column.
ListEntry(rem, r) == [custom |-> {[col |-> x.col, text |-> x.text] : x \in {y \in rem : y.row = r}}]

\* GetListFeed: one entry per row from row 2 up to the first blank row.
RECURSIVE ListFeedFrom(_, _)
ListFeedFrom(rem, r) ==
    IF RemoteRowBlank(rem, r) THEN <<>>
    ELSE <<ListEntry(rem, r)>> \o ListFeedFrom(rem, r + 1)

GetListFeed(rem) == ListFeedFrom(rem, 2)

----------------------------------------------------------------------------
(* Worksheet.get_cells_feed and Worksheet.init_cell: building the cache.   *)

\* rs extended with empty Rows numbered from..to (nothing when to < from).
ExtendRows(rs, from, to) ==
    IF to < from THEN rs
    ELSE rs \o [k \in 1..(to - from + 1) |-> Row(from + k - 1)]

\* init_cell placing the cell in the last Row of the cache.
init_cell_last_row(w, nh, row_num, col_num, text) ==
    LET max_row == Len(w.rows) + nh
        rs == ExtendRows(w.rows, max_row + 1, row_num)
        new_cell == Cell(text, row_num, col_num)
    IN [w EXCEPT !.rows = [rs EXCEPT ![Len(rs)].cells = set_local(@, col_num - 1, new_cell)],
                 !.max_col = IF col_num > w.max_col THEN col_num ELSE w.max_col]

\* Worksheet.init_cell(row_num, col_num, cell) on w = [header_rows, rows, max_col].
init_cell(w, nh, row_num, col_num, text) ==
    LET irow == row_num - nh - 1
        icol == col_num - 1
        max_row == Len(w.rows) + nh
        rs == ExtendRows(w.rows, max_row + 1, row_num)
        new_cell == Cell(text, row_num, col_num)
    IN [w EXCEPT !.rows = [rs EXCEPT ![irow + 1].cells = set_local(@, icol, new_cell)],
                 !.max_col = IF col_num > w.max_col THEN col_num ELSE w.max_col]

\* The loop of get_cells_feed over the feed entries from position k on.
RECURSIVE LoadCells(_, _, _, _)
LoadCells(feed, k, w, nh) ==
    IF k > Len(feed)
    THEN [w EXCEPT !.header_rows = ExtendRows(w.header_rows, Len(w.header_rows) + 1, nh)]
    ELSE LET c == feed[k]
         IN IF c.row <= nh
            THEN LET hs == ExtendRows(w.header_rows, Len(w.header_rows) + 1, c.row)
                     new_cell == Cell(c.text, c.row, c.col)
                 IN LoadCells(feed, k + 1,
                        [w EXCEPT !.header_rows =
                            [hs EXCEPT ![c.row].cells = set_local(@, c.col - 1, new_cell)]],
                        nh)
            ELSE LoadCells(feed, k + 1, init_cell(w, nh, c.row, c.col, c.text), nh)

\* get_cells_feed on an unloaded worksheet; _max_col keeps its value.
get_cells_feed(rem, nh, mc) ==
    LoadCells(CellFeed(rem), 1, [header_rows |-> <<>>, rows |-> <<>>, max_col |-> mc], nh)

----------------------------------------------------------------------------
(* Worksheet.get_coltags. *)

blank_coltags ==
    << <<"_", "c", "n", "6", "c", "a">>,
       <<"_", "c", "o", "k", "w", "r">>,
       <<"_", "c", "p", "z", "h", "4">>,
       <<"_", "c", "r", "e", "1", "l">>,
       <<"_", "c", "h", "k", "2", "m">>,
       <<"_", "c", "i", "y", "n", "3">>,
       <<"_", "c", "k", "d", "7", "g">>,
       <<"_", "c", "l", "r", "r", "x">>,
       <<"_", "c", "y", "e", "v", "m">>,
       <<"_", "c", "z", "t", "g", "3">>,
       <<"_", "d", "1", "8", "0", "g">>,
       <<"_", "d", "2", "m", "k", "x">>,
       <<"_", "c", "s", "s", "l", "y">>,
       <<"_", "c", "u", "7", "6", "f">>,
       <<"_", "c", "v", "l", "q", "s">>,
       <<"_", "c", "x", "0", "b", "9">>,
       <<"_", "d", "9", "n", "e", "y">>,
       <<"_", "d", "b", "1", "z", "f">>,
       <<"_", "d", "c", "g", "j", "s">>,
       <<"_", "d", "d", "v", "4", "9">>,
       <<"_", "d", "4", "1", "5", "a">>,
       <<"_", "d", "5", "f", "p", "r">>,
       <<"_", "d", "6", "u", "a", "4">>,
       <<"_", "d", "8", "8", "u", "l">>,
       <<"_", "d", "k", "v", "y", "a">>,
       <<"_", "d", "m", "a", "i", "r">>,
       <<"_", "d", "n", "p", "3", "4">>,
       <<"_", "d", "p", "3", "n", "l">>,
       <<"_", "d", "f", "9", "o", "m">> >>

Max(a, b) == IF a > b THEN a ELSE b

\* re.sub(r'[^a-zA-Z0-9\-]', '', text)
StripTag(t) == SelectSeq(t, TagChar)

\* The key of slot i (0-based) before the '_%d' suffix: '' when the slot is
\* past the tag row, empty, or stripped to nothing.
RawTag(tag_cells, i) ==
    IF i < Len(tag_cells) /\ Truthy(tag_cells[i + 1]) THEN StripTag(tag_cells[i + 1].text)
    ELSE E

\* count[key] when slot i is reached.
TagCount(tag_cells, i) ==
    Cardinality({j \in 0..i : RawTag(tag_cells, j) = RawTag(tag_cells, i)})

\* The number of slots get_coltags walks over.
ColtagSlots(mc) == Max(mc, Len(blank_coltags))

\* TRUE when get_coltags raises IndexError at blank_coltags[i].
coltags_fails(tag_cells, mc) ==
    \E i \in 0..(ColtagSlots(mc) - 1) :
        RawTag(tag_cells, i) = E /\ i >= Len(blank_coltags)

\* get_coltags without the '_%d' suffix of repeated keys.
get_coltags_unsuffixed(tag_cells, mc) ==
    [k \in 1..ColtagSlots(mc) |->
        LET key == RawTag(tag_cells, k - 1)
        IN IF key = E THEN (IF k <= Len(blank_coltags) THEN blank_coltags[k] ELSE E)
           ELSE key]

\* get_coltags, given the cells of get_row(1) and max_col.
get_coltags(tag_cells, mc) ==
    [k \in 1..ColtagSlots(mc) |->
        LET i == k - 1
            key == RawTag(tag_cells, i)
        IN IF key = E THEN (IF k <= Len(blank_coltags) THEN blank_coltags[k] ELSE E)
           ELSE IF TagCount(tag_cells, i) > 1
                THEN key \o <<"_">> \o IntToText(TagCount(tag_cells, i))
                ELSE key]

----------------------------------------------------------------------------
(* The operations, as functions of the worksheet-and-remote record         *)
(*   W = [remote, header_rows, rows, max_col, list_feed, calls, err, nupd, *)
(*        feed, nfetch]                                                    *)
(* nh is Worksheet.nheaders.  The remote's answers come from o:            *)
(*   o.failAt   the UpdateCell call of the operation (1, 2, ...) that the  *)
(*              service fails on every attempt; 0 for none                 *)
(*   o.okAt     the attempt at which every other UpdateCell call succeeds  *)
(*   o.primFail InsertRow / DeleteRow raises                               *)
(*   o.written  the columns (0-based) whose values InsertRow writes        *)

NoList == [loaded |-> FALSE, entry |-> <<>>]

CallRec(fn, r, c, v, att, ok, named, resp) ==
    [fn |-> fn, row |-> r, col |-> c, value |-> v, attempts |-> att, ok |-> ok,
     named |-> named, resp |-> resp]

Raise(W, e) == [W EXCEPT !.err = e]

\* The retry loop of UpdateCell, from attempt i on: the service succeeds
\* first at attempt firstOk.  The result is [ok, attempts].
RECURSIVE UpdateCellTry(_, _)
UpdateCellTry(i, firstOk) ==
    IF firstOk = i THEN [ok |-> TRUE, attempts |-> i]
    ELSE IF i < num_tries THEN UpdateCellTry(i + 1, firstOk)
    ELSE [ok |-> FALSE, attempts |-> i]

\* UpdateCell with the row and the column exchanged.
UpdateCell_swapped(W, o, r, c, v) ==
    LET n == W.nupd + 1
        res == UpdateCellTry(1, IF o.failAt = n THEN num_tries + 1 ELSE o.okAt)
    IN [W EXCEPT !.nupd = n,
                 !.calls = Append(@, CallRec("update_cell", c, r, v, res.attempts, res.ok, {}, {})),
                 !.remote = IF res.ok THEN RemoteSet(@, c, r, v) ELSE @,
                 !.err = IF res.ok THEN @ ELSE "remote"]

\* UpdateCell(row, col, new_val, key, wksht_id).
UpdateCell(W, o, r, c, v) ==
    LET n == W.nupd + 1
        res == UpdateCellTry(1, IF o.failAt = n THEN num_tries + 1 ELSE o.okAt)
    IN [W EXCEPT !.nupd = n,
                 !.calls = Append(@, CallRec("update_cell", r, c, v, res.attempts, res.ok, {}, {})),
                 !.remote = IF res.ok THEN RemoteSet(@, r, c, v) ELSE @,
                 !.err = IF res.ok THEN @ ELSE "remote"]

\* A Row of the cache: header row idx or data row idx (1-based).
HdrRef(i) == [hdr |-> TRUE, idx |-> i]
DataRef(i) == [hdr |-> FALSE, idx |-> i]
RowAt(W, ref) == IF ref.hdr THEN W.header_rows[ref.idx] ELSE W.rows[ref.idx]
PutCells(W, ref, cells) ==
    IF ref.hdr THEN [W EXCEPT !.header_rows[ref.idx].cells = cells]
    ELSE [W EXCEPT !.rows[ref.idx].cells = cells]

\* Worksheet.get_headers: the last header row.
HeaderCells(W) == W.header_rows[Len(W.header_rows)].cells

\* The comparison with None taken for ''.
SameValue_none_is_empty(new_val, slot) == slot.text = new_val

\* new_val == self[icol] of Row.__setitem__: a str against a slot; None
\* equals no str, not even ''.
SameValue(new_val, slot) == slot.kind # "none" /\ slot.text = new_val

\* Row.__setitem__ writing the cache before the remote call has answered.
setitem_write_ahead(W, o, ref, key, val) ==
    IF W.err # "none" THEN W
    ELSE
    LET self == RowAt(W, ref)
        new_val == Normalize(val)
        icol == get_index_of_key(HeaderCells(W), key)
        col == icol + 1
    IN IF icol < 0 THEN Raise(W, "KeyError")
       ELSE IF SameValue(new_val, getitem(self.cells, icol)) THEN W
       ELSE LET W1 == UpdateCell(W, o, self.row, col, new_val)
                new_cell == IF new_val # E THEN Cell(new_val, self.row, col) ELSE NoSlot
                cells == TrimNone(set_local(self.cells, icol, new_cell))
            IN [PutCells(W1, ref, cells) EXCEPT
                   !.max_col = IF Len(cells) > @ THEN Len(cells) ELSE @]

\* Row.__setitem__(key, new_val) on the Row at ref.
setitem(W, o, ref, key, val) ==
    IF W.err # "none" THEN W
    ELSE
    LET self == RowAt(W, ref)
        new_val == Normalize(val)
        icol == get_index_of_key(HeaderCells(W), key)
        col == icol + 1
    IN IF icol < 0 THEN Raise(W, "KeyError")
       ELSE IF SameValue(new_val, getitem(self.cells, icol)) THEN W
       ELSE LET W1 == UpdateCell(W, o, self.row, col, new_val)
                new_cell == IF new_val # E THEN Cell(new_val, self.row, col) ELSE NoSlot
                cells == TrimNone(set_local(self.cells, icol, new_cell))
            IN IF W1.err # "none" THEN W1
               ELSE [PutCells(W1, ref, cells) EXCEPT
                        !.max_col = IF Len(cells) > @ THEN Len(cells) ELSE @]

\* row[key] = val for each Row of refs in turn, stopping at the first error.
RECURSIVE SetEach(_, _, _, _, _)
SetEach(W, o, refs, key, val) ==
    IF refs = <<>> \/ W.err # "none" THEN W
    ELSE SetEach(setitem(W, o, refs[1], key, val), o, Tail(refs), key, val)

\* BlankFrom finding no empty Row.
BlankFrom_none(rs, k) == <<>>

\* The 1-based positions of the empty Rows of rs, in order.
RECURSIVE BlankFrom(_, _)
BlankFrom(rs, k) ==
    IF k > Len(rs) THEN <<>>
    ELSE (IF rs[k].cells = <<>> THEN <<k>> ELSE <<>>) \o BlankFrom(rs, k + 1)

\* Worksheet.get_list_feed.  The loop runs over self.headers + self.rows,
\* the cells of the last header row followed by the data Rows: an empty
\* header slot is None, and None[0] = ' ' raises TypeError.
get_list_feed(W, o) ==
    IF W.err # "none" \/ W.list_feed.loaded THEN W
    ELSE IF \E k \in 1..Len(HeaderCells(W)) : ~Truthy(HeaderCells(W)[k])
         THEN Raise(W, "TypeError")
    ELSE LET blank == BlankFrom(W.rows, 1)
             refs == [k \in 1..Len(blank) |-> DataRef(blank[k])]
             W1 == SetEach(W, o, refs, IntV(0), StrV(SP))
             W2 == [W1 EXCEPT !.list_feed = [loaded |-> TRUE, entry |-> GetListFeed(W1.remote)]]
         IN IF W1.err # "none" THEN W1
            ELSE SetEach(W2, o, refs, IntV(0), NoneV)

----------------------------------------------------------------------------
(* Row.delete. *)

\* set(self.worksheet._rows[irow] + [None]) without the None: the texts of
\* the slots that are not None ('' included when a slot holds '').
ObjVals(cells) == {cells[k].text : k \in {j \in 1..Len(cells) : cells[j].kind # "none"}}

\* gdata_vals without the None: the texts of the entry that are not empty.
GdataVals(entry) == {x.text : x \in {y \in entry.custom : y.text # E}}

RemoveAt(seq, k) == SubSeq(seq, 1, k - 1) \o SubSeq(seq, k + 1, Len(seq))

\* "for cell in self.worksheet[i]: if (cell): cell.row -= 1" from slot k on.
\* A Cell has a row attribute; a plain str has none and raises
\* AttributeError.  The result is [cells, ok].
RECURSIVE DecrementCells(_, _)
DecrementCells(cells, k) ==
    IF k > Len(cells) THEN [cells |-> cells, ok |-> TRUE]
    ELSE IF ~Truthy(cells[k]) THEN DecrementCells(cells, k + 1)
    ELSE IF cells[k].kind = "str" THEN [cells |-> cells, ok |-> FALSE]
    ELSE DecrementCells([cells EXCEPT ![k].row = @ - 1], k + 1)

\* The renumbering loop of Row.delete over the 0-based indices i..len-1.
RECURSIVE Renumber(_, _)
Renumber(W, i) ==
    IF i >= Len(W.rows) THEN W
    ELSE LET d == DecrementCells(W.rows[i + 1].cells, 1)
             W1 == [W EXCEPT !.rows[i + 1] = [row |-> @.row - 1, cells |-> d.cells]]
         IN IF d.ok THEN Renumber(W1, i + 1) ELSE Raise(W1, "AttributeError")

\* The index the renumbering loop starts at: range(self.row-2, ...).
RenumberStart(self_row, nh) == self_row - 2

\* Row.delete() on the data Row at position i (1-based) of W.rows.
delete(W0, o, nh, i) ==
    LET self_row == W0.rows[i].row
        W == get_list_feed(W0, o)
        ei == PyIndex(Len(W.list_feed.entry), self_row - 2)
        irow == self_row - nh - 1
        ri == PyIndex(Len(W.rows), irow)
    IN IF W.err # "none" THEN W
       ELSE IF ei = 0 \/ ri = 0 THEN Raise(W, "IndexError")
       ELSE IF ObjVals(W.rows[ri].cells) # GdataVals(W.list_feed.entry[ei])
            THEN Raise(W, "ValueError")
       ELSE IF o.primFail
            THEN [W EXCEPT !.err = "remote",
                           !.calls = Append(@, CallRec("delete_row", ei + 1, 0, E, 1, FALSE, {}, {}))]
       ELSE Renumber(
              [W EXCEPT !.remote = RemoteDeleteRow(@, ei + 1),
                        !.calls = Append(@, CallRec("delete_row", ei + 1, 0, E, 1, TRUE, {}, {})),
                        !.list_feed.entry = RemoveAt(@, ei),
                        !.rows = RemoveAt(@, ri)],
              RenumberStart(self_row, nh))

----------------------------------------------------------------------------
(* RowData and Worksheet.append. *)

\* RowData(worksheet, data) for a sequence: one RowDataVal per value, with
\* the coltag assigned where the value is not empty (E stands for None).
RowData(W, vals) ==
    LET tags == get_coltags(W.header_rows[1].cells, W.max_col)
    IN [k \in 1..Len(vals) |->
          [icol |-> k - 1, val |-> Normalize(vals[k]),
           coltag |-> IF k <= Len(tags) /\ Normalize(vals[k]) # E THEN tags[k] ELSE E]]

\* The dictionary get_insert_vals builds before its blank-row branch.
InsertVals(row_data) ==
    {[coltag |-> row_data[k].coltag, val |-> row_data[k].val, icol |-> row_data[k].icol] :
        k \in {j \in 1..Len(row_data) : row_data[j].val # E /\ row_data[j].coltag # E}}

\* RowData.get_insert_vals: [ok, vals].  With nothing to insert the code
\* assigns to insert_vals, a name that is not defined: NameError.
get_insert_vals(row_data) ==
    IF InsertVals(row_data) = {} THEN [ok |-> FALSE, vals |-> {}]
    ELSE [ok |-> TRUE, vals |-> InsertVals(row_data)]

\* RowData.is_blank
is_blank(row_data) == \A k \in 1..Len(row_data) : row_data[k].val = E

\* InsertRow: the remote adds a row after its content and writes the values
\* of the columns in o.written; the response names the keys it wrote.
InsertRow(W, o, named) ==
    LET at == RemoteLastRow(W.remote) + 1
        wrote == {x \in named : x.icol \in o.written}
        resp == {x.coltag : x \in wrote}
    IN IF o.primFail
       THEN [W EXCEPT !.err = "remote",
                      !.calls = Append(@, CallRec("insert_row", at, 0, E, 1, FALSE, named, {}))]
       ELSE [W EXCEPT !.remote = @ \cup {[row |-> at, col |-> x.icol + 1, text |-> x.val] : x \in wrote},
                      !.calls = Append(@, CallRec("insert_row", at, 0, E, 1, TRUE, named, resp))]

\* The response of the last InsertRow call of W.
LastResp(W) == W.calls[Len(W.calls)].resp

\* The test of line 564 without the look at the response.
ForceWrite_always(overwrite, rd, resp) == overwrite /\ rd.val # E

\* TRUE when append writes value rd through Row.__setitem__ (line 564).
ForceWrite(overwrite, rd, resp) == overwrite /\ rd.val # E /\ rd.coltag \notin resp

\* The loop of lines 563-567 without its else branch.
RECURSIVE FillNewRow_forced_only(_, _, _, _, _, _)
FillNewRow_forced_only(W, o, row_data, k, overwrite, resp) ==
    IF k > Len(row_data) \/ W.err # "none" THEN W
    ELSE LET rd == row_data[k]
             last == DataRef(Len(W.rows))
         IN FillNewRow_forced_only(
              IF ForceWrite(overwrite, rd, resp)
              THEN setitem(W, o, last, IntV(rd.icol), StrV(rd.val))
              ELSE W,
              o, row_data, k + 1, overwrite, resp)

\* The loop of lines 563-567 over row_data from position k on; the new Row
\* is the last of W.rows.
RECURSIVE FillNewRow(_, _, _, _, _, _)
FillNewRow(W, o, row_data, k, overwrite, resp) ==
    IF k > Len(row_data) \/ W.err # "none" THEN W
    ELSE LET rd == row_data[k]
             last == DataRef(Len(W.rows))
         IN FillNewRow(
              IF ForceWrite(overwrite, rd, resp)
              THEN setitem(W, o, last, IntV(rd.icol), StrV(rd.val))
              ELSE PutCells(W, last, set_local(RowAt(W, last).cells, rd.icol, PlainStr(rd.val))),
              o, row_data, k + 1, overwrite, resp)

\* Worksheet.append(vals, overwrite) on a loaded worksheet.
append(W, o, nh, vals, overwrite) ==
    IF coltags_fails(W.header_rows[1].cells, W.max_col) THEN Raise(W, "IndexError")
    ELSE
    LET row_data == RowData(W, vals)
        blank == BlankFrom(W.header_rows, 1)
        refs == [k \in 1..Len(blank) |-> HdrRef(blank[k])]
        W1 == SetEach(W, o, refs, IntV(0), StrV(SP))
        iv == get_insert_vals(row_data)
        W2 == InsertRow(W1, o, iv.vals)
        W3 == SetEach(W2, o, refs, IntV(0), NoneV)
        W4 == [W3 EXCEPT !.rows = Append(@, Row(Len(@) + nh + 1))]
        W5 == FillNewRow(W4, o, row_data, 1, overwrite, LastResp(W2))
    IN IF W1.err # "none" THEN W1
       ELSE IF ~iv.ok THEN Raise(W1, "NameError")
       ELSE IF W2.err # "none" THEN W2
       ELSE IF W3.err # "none" THEN W3
       ELSE IF W5.err # "none" THEN W5
       ELSE IF is_blank(row_data) THEN setitem(W5, o, DataRef(Len(W5.rows)), IntV(0), NoneV)
       ELSE W5

----------------------------------------------------------------------------
(* The state machine. *)

RCell(r, c, t) == [row |-> r, col |-> c, text |-> t]

\* The sheets a run starts from, each with the header count it is opened with.
SheetNameAge == {RCell(1, 1, Name), RCell(1, 2, Age), RCell(2, 1, Ann), RCell(2, 2, T30)}
SheetBlankRow == {RCell(1, 1, Name), RCell(1, 2, Age), RCell(2, 1, Ann), RCell(4, 2, T31)}
SheetBlankHeader == {RCell(2, 1, Ann), RCell(3, 1, Bob)}
SheetTwoHeaders == {RCell(1, 1, Name), RCell(1, 2, Age), RCell(2, 1, Ann), RCell(2, 2, T30),
                    RCell(3, 1, Bob), RCell(4, 1, Ann)}
InitSheets == {[cells |-> SheetNameAge, nheaders |-> 1],
               [cells |-> SheetBlankRow, nheaders |-> 1],
               [cells |-> SheetBlankHeader, nheaders |-> 1],
               [cells |-> SheetTwoHeaders, nheaders |-> 2]}

\* The arguments the caller passes.
SetKeys == {IntV(0), StrV(Age)}
SetVals == {NoneV, StrV(E), StrV(T31)}
AppendVals == {<<>>, <<NoneV, StrV(E)>>, <<StrV(Bob), IntV(31)>>, <<StrV(Bob), NoneV>>}

\* The answers of the remote to one operation.
Oracle(failAt, okAt, primFail, written) ==
    [failAt |-> failAt, okAt |-> okAt, primFail |-> primFail, written |-> written]

\* One cell write: the update succeeds at once, succeeds at the last try,
\* or fails at every try.
SetOracles == {Oracle(0, 1, FALSE, {}), Oracle(0, num_tries, FALSE, {}), Oracle(1, 1, FALSE, {})}

\* append: InsertRow raises, or writes any subset of the columns; one of the
\* first UpdateCell calls may fail.
AppendOracles(vals, overwrite) ==
    {Oracle(0, 1, TRUE, {})} \cup
    {Oracle(f, 1, FALSE, w) : f \in (IF overwrite THEN 0..2 ELSE 0..1),
                              w \in (IF \A k \in 1..Len(vals) : Normalize(vals[k]) = E
                                     THEN {{}} ELSE SUBSET {0, 1})}

\* delete: DeleteRow raises, or one of the UpdateCell calls of the list
\* feed's blank-row workaround fails.
DeleteOracles == {Oracle(0, 1, TRUE, {})} \cup {Oracle(f, 1, FALSE, {}) : f \in 0..2}

NoOp == [name |-> "none", ref |-> HdrRef(0), key |-> NoneV, val |-> NoneV,
         vals |-> <<>>, overwrite |-> FALSE]

\* The worksheet-and-remote record of the current state, before an operation.
Cur == [remote |-> remote, header_rows |-> header_rows, rows |-> rows,
        max_col |-> max_col, list_feed |-> list_feed, calls |-> <<>>,
        err |-> "none", nupd |-> 0, feed |-> cells_feed, nfetch |-> 0]

\* The load made whether or not the worksheet holds data.
Loaded_refetch ==
    LET w == get_cells_feed(remote, nheaders, max_col)
    IN [Cur EXCEPT !.header_rows = w.header_rows, !.rows = w.rows, !.max_col = w.max_col,
                   !.feed = CellFeed(remote), !.nfetch = 1]

\* Cur after "if (not self.has_data()): self.load_data()".
Loaded ==
    IF has_data THEN Cur
    ELSE LET w == get_cells_feed(remote, nheaders, max_col)
         IN [Cur EXCEPT !.header_rows = w.header_rows, !.rows = w.rows, !.max_col = w.max_col,
                        !.feed = CellFeed(remote), !.nfetch = 1]

Commit(W, o) ==
    /\ remote' = W.remote
    /\ header_rows' = W.header_rows
    /\ rows' = W.rows
    /\ max_col' = W.max_col
    /\ list_feed' = W.list_feed
    /\ calls' = W.calls
    /\ err' = W.err
    /\ op' = o
    /\ clean' = (clean /\ W.err = "none")
    /\ has_data' = TRUE
    /\ cells_feed' = W.feed
    /\ fetches' = fetches + W.nfetch
    /\ UNCHANGED <<nheaders, row_count, opened, doc_key, coltags, retry>>

\* The document id of the spreadsheet.
DocId == <<"A", "B", "C", "1", "2", "3">>

\* No result of get_coltags yet.
NoTags == [state |-> "none", keys |-> <<>>]

\* UpdateCell is not running.
RetryIdle == [state |-> "idle", i |-> 0, answers |-> <<>>]

\* The row_count of a worksheet whose grid ends with its last filled row.
GridRows(rem) == IF RemoteLastRow(rem) > 1 THEN RemoteLastRow(rem) ELSE 1

\* A Worksheet object as __init__ leaves it: no data yet.
Unloaded ==
    /\ has_data = FALSE
    /\ cells_feed = <<>>
    /\ fetches = 0
    /\ header_rows = <<>>
    /\ rows = <<>>
    /\ max_col = 0
    /\ list_feed = NoList
    /\ calls = <<>>
    /\ err = "none"
    /\ op = NoOp
    /\ clean = TRUE
    /\ steps = 0
    /\ coltags = NoTags
    /\ retry = RetryIdle

Init ==
    /\ \E sheet \in InitSheets : remote = sheet.cells /\ nheaders = sheet.nheaders
    /\ row_count = GridRows(remote)
    /\ opened = "yes"
    /\ doc_key = DocId
    /\ cells_feed = <<>>
    /\ fetches = 0
    /\ coltags = NoTags
    /\ retry = RetryIdle
    /\ has_data = FALSE
    /\ header_rows = <<>>
    /\ rows = <<>>
    /\ max_col = 0
    /\ list_feed = NoList
    /\ calls = <<>>
    /\ err = "none"
    /\ op = NoOp
    /\ clean = TRUE
    /\ steps = 0

\* Worksheet.load_data on a worksheet that holds no data yet.
Load ==
    /\ ~has_data
    /\ Commit(Loaded, [NoOp EXCEPT !.name = "load"])
    /\ UNCHANGED steps

\* row[key] = val on worksheet.headers or on a data Row of the loaded worksheet.
SetItem ==
    /\ has_data
    /\ steps < MaxOps
    /\ \E ref \in {HdrRef(Len(header_rows))} \cup {DataRef(i) : i \in 1..Len(rows)},
          key \in SetKeys, val \in SetVals, o \in SetOracles :
          Commit(setitem(Cur, o, ref, key, val),
                 [NoOp EXCEPT !.name = "setitem", !.ref = ref, !.key = key, !.val = val])
    /\ steps' = steps + 1

\* worksheet.append(vals, overwrite)
AppendRow ==
    /\ steps < MaxOps
    /\ Len(Loaded.rows) < MaxDataRows
    /\ \E vals \in AppendVals, overwrite \in BOOLEAN :
       \E o \in AppendOracles(vals, overwrite) :
          Commit(append(Loaded, o, nheaders, vals, overwrite),
                 [NoOp EXCEPT !.name = "append", !.vals = vals, !.overwrite = overwrite])
    /\ steps' = steps + 1

\* row.delete() on a data Row of the loaded worksheet.
DeleteRow ==
    /\ has_data
    /\ steps < MaxOps
    /\ \E i \in 1..Len(rows), o \in DeleteOracles :
          Commit(delete(Cur, o, nheaders, i),
                 [NoOp EXCEPT !.name = "delete", !.ref = DataRef(i)])
    /\ steps' = steps + 1

Next == Load \/ SetItem \/ AppendRow \/ DeleteRow

Spec == Init /\ [][Next]_vars

----------------------------------------------------------------------------
(* Vocabulary of the properties. *)

\* The display-string form of a value: '' for None, the decimal digits of
\* an integer, a string as it is.
DisplayText(v) ==
    IF v.kind = "none" THEN E
    ELSE IF v.kind = "int" THEN IntToText(v.n)
    ELSE v.text

\* The cache: header Rows, data Rows and max_col_seen.
Cache == <<header_rows, rows, max_col>>

\* The cells of the Row a reference names, in the current state.
CellsNow(ref) == IF ref.hdr THEN header_rows[ref.idx].cells ELSE rows[ref.idx].cells
RowNumberNow(ref) == IF ref.hdr THEN header_rows[ref.idx].row ELSE rows[ref.idx].row
HeadersNow == header_rows[Len(header_rows)].cells

\* The column (0-based) a key names in the current state; negative when it names none.
ColumnNow(key) == get_index_of_key(HeadersNow, key)

\* The slot of the Row at ref a key names in the current state.
SlotNow(ref, key) == getitem(CellsNow(ref), ColumnNow(key))

\* The same after the step, for the Row and the key of the step's operation.
ColumnAfter == get_index_of_key(HeadersNow', op'.key)
CellsAfter ==
    IF op'.ref.hdr THEN header_rows'[op'.ref.idx].cells ELSE rows'[op'.ref.idx].cells
SlotAfter == getitem(CellsAfter, ColumnAfter)

\* The slot holds text v: a Cell with that text, or nothing when v is empty.
Holds(slot, v) == IF v = E THEN slot.kind = "none" ELSE slot.kind = "cell" /\ slot.text = v

\* A step that ran row[key] = val, append, or delete.
SetStep == op'.name = "setitem" /\ steps' = steps + 1
AppendStep == op'.name = "append" /\ steps' = steps + 1
DeleteStep == op'.name = "delete" /\ steps' = steps + 1

\* A cell write that went to the remote: one update_cell call was issued.
WriteIssued == SetStep /\ Len(calls') = 1 /\ calls'[1].fn = "update_cell"

----------------------------------------------------------------------------
\* C1: a cell write whose update_cell call fails on every retry attempt
\* raises the remote error and leaves the cache as it was: the cells and the
\* length of every Row, and max_col.
C1_FailedWriteLeavesCache ==
    [][(WriteIssued /\ ~calls'[1].ok)
          => /\ err' = "remote"
             /\ calls'[1].attempts = num_tries
             /\ Cache' = Cache
             /\ remote' = remote]_vars

C1_Witness ==
    /\ op.name = "setitem" /\ err = "remote"
    /\ Len(calls) = 1 /\ ~calls[1].ok /\ calls[1].attempts = num_tries
    /\ ~op.ref.hdr

\* C2 as stated: a cell write with a successful update sends
\* update_cell(row_number, column index + 1, v) and afterwards reading
\* row[key] yields v (nothing when v is empty).
C2_ReadBackByKey ==
    [][(WriteIssued /\ calls'[1].ok)
          => /\ calls'[1].row = RowNumberNow(op'.ref)
             /\ calls'[1].col = ColumnNow(op'.key) + 1
             /\ calls'[1].value = DisplayText(op'.val)
             /\ ColumnAfter >= 0
             /\ Holds(SlotAfter, DisplayText(op'.val))]_vars

\* C2 amended: the call is update_cell(row_number, column index + 1, v), the
\* slot at the written column holds v afterwards, and reading row[key]
\* yields v on every data Row and for every index key.
C2_WriteReachesSlot ==
    [][(WriteIssued /\ calls'[1].ok)
          => /\ err' = "none"
             /\ calls'[1].row = RowNumberNow(op'.ref)
             /\ calls'[1].col = ColumnNow(op'.key) + 1
             /\ calls'[1].value = DisplayText(op'.val)
             /\ Holds(getitem(CellsAfter, ColumnNow(op'.key)), DisplayText(op'.val))
             /\ RemoteText(remote', RowNumberNow(op'.ref), ColumnNow(op'.key) + 1) = DisplayText(op'.val)
             /\ (~op'.ref.hdr \/ op'.key.kind = "int")
                   => /\ ColumnAfter = ColumnNow(op'.key)
                      /\ Holds(SlotAfter, DisplayText(op'.val))]_vars

\* The scenario of the claim: header [Name, Age], data row [Ann, 30],
\* ws[0]["Age"] = "31" sent update_cell(row=2, col=2, value="31") and
\* ws[0]["Age"] reads "31".
C2_Witness ==
    /\ op.name = "setitem" /\ op.ref = DataRef(1) /\ op.key = StrV(Age) /\ op.val = StrV(T31)
    /\ HeadersNow = <<Cell(Name, 1, 1), Cell(Age, 1, 2)>>
    /\ Len(calls) = 1 /\ calls[1].ok
    /\ <<calls[1].row, calls[1].col, calls[1].value>> = <<2, 2, T31>>
    /\ rows[1].cells = <<Cell(Ann, 2, 1), Cell(T31, 2, 2)>>

\* C3 as stated: a cell write whose normalized value equals the cell's
\* current value, an empty slot counting as the empty string, issues no
\* remote call and leaves the cache unchanged.
C3_EqualWriteIsSilent ==
    [][(SetStep /\ ColumnNow(op'.key) >= 0
           /\ SlotNow(op'.ref, op'.key).text = DisplayText(op'.val))
          => /\ calls' = <<>>
             /\ Cache' = Cache]_vars

\* C3 amended: a write equal to the text of the value the slot holds issues
\* no remote call and changes nothing; a write of None or '' to a slot that
\* holds nothing issues one update_cell with the empty value and leaves the
\* cells of every Row as they were.
C3_EqualWriteSilentUnlessSlotEmpty ==
    [][(SetStep /\ ColumnNow(op'.key) >= 0
           /\ SlotNow(op'.ref, op'.key).text = DisplayText(op'.val))
          => IF SlotNow(op'.ref, op'.key).kind # "none"
             THEN /\ calls' = <<>> /\ err' = "none"
                  /\ Cache' = Cache /\ remote' = remote
             ELSE /\ Len(calls') = 1
                  /\ calls'[1].fn = "update_cell"
                  /\ calls'[1].row = RowNumberNow(op'.ref)
                  /\ calls'[1].col = ColumnNow(op'.key) + 1
                  /\ calls'[1].value = E
                  /\ header_rows' = header_rows /\ rows' = rows]_vars

\* A write of "31" over a cell that holds "31" was a no-op.
C3_Witness ==
    /\ op.name = "setitem" /\ err = "none" /\ calls = <<>>
    /\ DisplayText(op.val) = T31
    /\ ColumnNow(op.key) >= 0
    /\ SlotNow(op.ref, op.key).text = T31

----------------------------------------------------------------------------
\* C4 as stated: on a loaded worksheet, after operations that all succeeded,
\* data_rows[i].row_number = header_count + i + 1 for every 0-based index i.
C4_RowNumbersContiguous ==
    (has_data /\ clean) => \A i \in 1..Len(rows) : rows[i].row = nheaders + i

\* The text a cache Row holds at column c (1-based); '' for an empty slot.
CachedText(row, c) == getitem(row.cells, c - 1).text

\* C5 as stated: after operations that all completed, every text the cache
\* holds equals the remote text at the same (row, col), and every empty
\* cache slot is empty in the remote.
C5_CacheMatchesRemote ==
    (has_data /\ clean) =>
        \A r \in {header_rows[i] : i \in 1..Len(header_rows)} \cup {rows[i] : i \in 1..Len(rows)} :
            \A c \in 1..Len(r.cells) : CachedText(r, c) = RemoteText(remote, r.row, c)

\* The non-empty values the cache holds for a Row, and those of an entry.
CacheValues(cells) == {cells[k].text : k \in {j \in 1..Len(cells) : cells[j].text # E}}
EntryValues(entry) == {x.text : x \in {y \in entry.custom : y.text # E}}

\* C6 as stated, in the direction the code breaks: a delete that raised the
\* consistency error found the non-empty values of the cache Row different
\* from those of the Row's list-feed entry, and issued no delete call.
C6_ConsistencyErrorOnlyOnMismatch ==
    (op.name = "delete" /\ err = "ValueError") =>
        /\ CacheValues(rows[op.ref.idx].cells)
              # EntryValues(list_feed.entry[rows[op.ref.idx].row - 1])
        /\ \A k \in 1..Len(calls) : calls[k].fn # "delete_row"

\* A non-empty cell with its row coordinate decreased by one.
Shifted(slot) == IF Truthy(slot) THEN [slot EXCEPT !.row = @ - 1] ELSE slot

\* C7 as stated: a delete whose reconciliation passed and whose remote
\* delete succeeded completes; the Row is gone, the Rows before it are as
\* they were, and every Row after it has its row_number and the row of each
\* non-empty cell decreased by exactly 1.
C7_DeleteRenumbers ==
    [][(DeleteStep /\ calls' # <<>> /\ calls'[Len(calls')].fn = "delete_row"
           /\ calls'[Len(calls')].ok)
          => /\ err' = "none"
             /\ Len(rows') = Len(rows) - 1
             /\ \A j \in 1..Len(rows') :
                   IF j < op'.ref.idx THEN rows'[j] = rows[j]
                   ELSE /\ rows'[j].row = rows[j + 1].row - 1
                        /\ Len(rows'[j].cells) = Len(rows[j + 1].cells)
                        /\ \A c \in 1..Len(rows'[j].cells) :
                              /\ rows'[j].cells[c] = Shifted(rows[j + 1].cells[c])
                              /\ Truthy(rows'[j].cells[c]) => rows'[j].cells[c].row = rows'[j].row]_vars

\* Every value of the sequence is None or ''.
AllEmpty(vals) == \A k \in 1..Len(vals) : DisplayText(vals[k]) = E

\* C8 as stated: an append of all-empty input that no remote failure stopped
\* issued insert_row with a single space under the first column key, then an
\* update_cell clearing that cell, and completed with a new last Row whose
\* first cell is empty.
C8_BlankAppend ==
    (op.name = "append" /\ AllEmpty(op.vals) /\ err # "remote") =>
        /\ err = "none"
        /\ \E p \in 1..Len(calls) :
              /\ calls[p].fn = "insert_row"
              /\ Cardinality(calls[p].named) = 1
              /\ \A x \in calls[p].named : x.icol = 0 /\ x.val = SP
              /\ \E q \in (p + 1)..Len(calls) :
                    /\ calls[q].fn = "update_cell"
                    /\ <<calls[q].row, calls[q].col, calls[q].value>> = <<rows[Len(rows)].row, 1, E>>
        /\ ~Truthy(getitem(rows[Len(rows)].cells, 0))

----------------------------------------------------------------------------
(* The follow-up writes of append. *)

\* The position of the insert_row call in a call log; 0 when there is none.
InsertAt(cs) ==
    IF \E p \in 1..Len(cs) : cs[p].fn = "insert_row"
    THEN CHOOSE p \in 1..Len(cs) : cs[p].fn = "insert_row"
    ELSE 0

\* The column key of column k (1-based) of the worksheet before the step.
ColumnKey(k) == get_coltags(Loaded.header_rows[1].cells, Loaded.max_col)[k]

\* The row number the appended Row gets: the previous max_row + 1.
NewRowNumber == Len(Loaded.rows) + nheaders + 1

\* The follow-ups the claim asks for, from position k of vals on: one
\* <<row, col, value>> per non-empty value whose column key is not in resp.
RECURSIVE FollowUpsFrom(_, _, _)
FollowUpsFrom(vals, k, resp) ==
    IF k > Len(vals) THEN <<>>
    ELSE (IF DisplayText(vals[k]) # E /\ ColumnKey(k) \notin resp
          THEN <<<<NewRowNumber, k, DisplayText(vals[k])>>>>
          ELSE <<>>) \o FollowUpsFrom(vals, k + 1, resp)

\* The update_cell calls of a log after position p that address row n.
RECURSIVE UpdatesOfRow(_, _, _)
UpdatesOfRow(cs, p, n) ==
    IF p >= Len(cs) THEN <<>>
    ELSE (IF cs[p + 1].fn = "update_cell" /\ cs[p + 1].row = n
          THEN <<<<cs[p + 1].row, cs[p + 1].col, cs[p + 1].value>>>>
          ELSE <<>>) \o UpdatesOfRow(cs, p + 1, n)

IsPrefix(a, b) == Len(a) <= Len(b) /\ a = SubSeq(b, 1, Len(a))

\* C9: in append(values, overwrite=True) the update_cell calls for the new
\* Row that follow the insert are, in column order, exactly one per supplied
\* non-empty value whose column key the response lacks (none for a value
\* whose key it has); a follow-up that fails ends the sequence there.
C9_FollowUpsForMissingKeys ==
    [][(AppendStep /\ op'.overwrite /\ InsertAt(calls') > 0 /\ calls'[InsertAt(calls')].ok)
          => LET p == InsertAt(calls')
                 want == FollowUpsFrom(op'.vals, 1, calls'[p].resp)
                 got == UpdatesOfRow(calls', p, NewRowNumber)
             IN /\ \A q \in 1..(p - 1) : calls'[q].row # NewRowNumber
                /\ IsPrefix(got, want)
                /\ (err' = "none" => got = want)
                /\ (got # want => ~calls'[Len(calls')].ok)]_vars

\* An append of [Bob, 31] whose response held the first key only: one
\* follow-up, for the second column, and none for the first.
C9_Witness ==
    /\ op.name = "append" /\ op.overwrite /\ err = "none"
    /\ op.vals = <<StrV(Bob), IntV(31)>>
    /\ Len(calls) = 2
    /\ calls[1].fn = "insert_row" /\ Cardinality(calls[1].resp) = 1
    /\ \E x \in calls[1].named : x.icol = 0 /\ x.coltag \in calls[1].resp
    /\ calls[2].fn = "update_cell"
    /\ <<calls[2].row, calls[2].col, calls[2].value>> = <<rows[Len(rows)].row, 2, T31>>

\* C10: after append(values, overwrite=True) returns, data_rows is the
\* previous data_rows plus one last Row numbered previous max_row + 1, and
\* its cached text at every position i is the display text of values[i].
C10_AppendedRowHoldsValues ==
    [][(AppendStep /\ op'.overwrite /\ err' = "none")
          => /\ Len(rows') = Len(Loaded.rows) + 1
             /\ SubSeq(rows', 1, Len(rows') - 1) = Loaded.rows
             /\ rows'[Len(rows')].row = NewRowNumber
             /\ \A k \in 1..Len(op'.vals) :
                   CachedText(rows'[Len(rows')], k) = DisplayText(op'.vals[k])]_vars

\* An append of [Bob, 31] returned although the insert had written neither
\* value, and another although it had written only the second.
C10_Witness ==
    /\ op.name = "append" /\ op.overwrite /\ err = "none"
    /\ op.vals = <<StrV(Bob), IntV(31)>>
    /\ InsertAt(calls) > 0
    /\ Cardinality(calls[InsertAt(calls)].resp) < 2
    /\ CachedText(rows[Len(rows)], 1) = Bob
    /\ CachedText(rows[Len(rows)], 2) = T31

----------------------------------------------------------------------------
(* UpdateCell's retry loop, one attempt at a time.                          *)

\* The answers of the service to one attempt: it returns, or raises one of
\* two errors.
ServiceAnswers == {"ok", "error_a", "error_b"}

\* The loop of UpdateCell with the test "i < num_tries" replaced by
\* "i <= num_tries".
retry_step_one_more(i, answer) ==
    IF answer = "ok" THEN [state |-> "returned", i |-> i]
    ELSE IF i <= num_tries THEN [state |-> "running", i |-> i + 1]
    ELSE [state |-> "raised", i |-> i]

\* One iteration of "for i in range(1, num_tries+1)" (lines 104-113): the
\* service's answer to attempt i returns from UpdateCell, goes on to
\* attempt i + 1, or is raised.
retry_step(i, answer) ==
    IF answer = "ok" THEN [state |-> "returned", i |-> i]
    ELSE IF i < num_tries THEN [state |-> "running", i |-> i + 1]
    ELSE [state |-> "raised", i |-> i]

\* The cells UpdateCell is called for.
RetryRows == 1..2
RetryCols == 1..2
RetryVals == {E, T31}

\* A caller enters UpdateCell(row, col, value).
RetryCall ==
    /\ retry.state = "idle"
    /\ \E r \in RetryRows, c \in RetryCols, v \in RetryVals :
          calls' = <<CallRec("update_cell", r, c, v, 0, FALSE, {}, {})>>
    /\ retry' = [state |-> "running", i |-> 1, answers |-> <<>>]
    /\ op' = [NoOp EXCEPT !.name = "UpdateCell"]
    /\ UNCHANGED <<remote, nheaders, has_data, header_rows, rows, max_col, list_feed,
                   err, clean, steps, cells_feed, fetches, row_count, opened,
                   doc_key, coltags>>

\* One attempt: spreadsheet_service().UpdateCell(...) answers.
RetryAttempt ==
    /\ retry.state = "running"
    /\ \E answer \in ServiceAnswers :
          LET nxt == retry_step(retry.i, answer)
              c == calls[1]
          IN /\ retry' = [state |-> nxt.state, i |-> nxt.i,
                          answers |-> Append(retry.answers, answer)]
             /\ calls' = <<[c EXCEPT !.attempts = @ + 1, !.ok = (answer = "ok")]>>
             /\ remote' = IF answer = "ok" THEN RemoteSet(remote, c.row, c.col, c.value)
                          ELSE remote
             /\ err' = IF nxt.state = "raised" THEN answer ELSE err
             /\ clean' = (clean /\ nxt.state # "raised")
    /\ UNCHANGED <<nheaders, has_data, header_rows, rows, max_col, list_feed, op,
                   steps, cells_feed, fetches, row_count, opened, doc_key, coltags>>

NextRetry == RetryCall \/ RetryAttempt

\* The loop takes its next iteration whenever it is in one: every call to
\* the service answers.
SpecRetry == Init /\ [][NextRetry]_vars /\ WF_vars(RetryAttempt)

\* The attempts made so far and their answers.
Attempts == Len(retry.answers)
FailedAttempt(k) == retry.answers[k] # "ok"

\* What the loop has done is what the claim allows.
RetryAsClaimed ==
    /\ Attempts <= num_tries
    /\ \A k \in 1..(Attempts - 1) : FailedAttempt(k)
    /\ retry.state = "running" => Attempts < num_tries /\ \A k \in 1..Attempts : FailedAttempt(k)
    /\ retry.state = "returned" => Attempts >= 1 /\ ~FailedAttempt(Attempts)
    /\ retry.state = "raised" =>
          /\ Attempts = num_tries
          /\ \A k \in 1..Attempts : FailedAttempt(k)
          /\ err = retry.answers[Attempts]
    /\ retry.state \in {"returned", "raised"} =>
          /\ calls[1].attempts = Attempts
          /\ calls[1].ok = (retry.state = "returned")
          /\ UpdateCellTry(1, IF calls[1].ok THEN Attempts ELSE num_tries + 1)
                = [ok |-> calls[1].ok, attempts |-> Attempts]

\* C11: UpdateCell makes at most num_tries attempts, returns at the first
\* attempt that succeeds, raises only after num_tries failed attempts and
\* then the error of the last one, and always ends.
C11_RetryBounded ==
    /\ []RetryAsClaimed
    /\ (retry.state = "running") ~> (retry.state \in {"returned", "raised"})

\* A call that failed four times and returned at the fifth attempt, and a
\* call that raised the error of its fifth attempt, are both reached; the
\* witness is the first.
C11_Witness ==
    /\ retry.state = "returned"
    /\ Attempts = num_tries
    /\ \A k \in 1..(num_tries - 1) : FailedAttempt(k)
    /\ RemoteText(remote, calls[1].row, calls[1].col) = calls[1].value

----------------------------------------------------------------------------
(* Worksheet.coltags on worksheets of many header rows and widths.          *)

\* Longest header row enumerated text by text.
MaxHeaderLen == 2

NaMe == <<"N", "a", " ", "m", "e">>
Bang == <<"!">>
Name_2 == <<"N", "a", "m", "e", "_", "2">>

\* The texts of a header cell; E is a cell the remote does not hold.
TagTexts == {E, Name, Age, NaMe, Bang, Name_2}

\* Header rows: every short one, and rows about as wide as blank_coltags
\* that are full of one text or hold only their last cell.
WideWidths == {Len(blank_coltags), Len(blank_coltags) + 1, Len(blank_coltags) + 2}
TagHeaders ==
    UNION {[1..n -> TagTexts] : n \in 0..MaxHeaderLen}
    \cup {[k \in 1..n |-> Name] : n \in WideWidths}
    \cup {[k \in 1..n |-> IF k = n THEN Name ELSE E] : n \in WideWidths}

\* The column of the one data cell; 0 for a worksheet without data rows.
TagDataWidths == {0, 1, 2, Len(blank_coltags) + 1}

\* The remote cells of a worksheet with header row H and data width w.
TagSheet(H, w) ==
    {RCell(1, k, H[k]) : k \in {j \in 1..Len(H) : H[j] # E}}
    \cup {RCell(2, w, Ann) : x \in {y \in {w} : y > 0}}

InitTags ==
    /\ \E H \in TagHeaders, w \in TagDataWidths : remote = TagSheet(H, w)
    /\ nheaders = 1
    /\ row_count = GridRows(remote)
    /\ opened = "yes"
    /\ doc_key = DocId
    /\ Unloaded

\* The row of line 411 taken to be worksheet.headers.
tag_row_last_header(W) == HeaderCells(W)

\* "tag_row = self.get_row(1)" (line 411): the cells of sheet row 1, the
\* first header row.
tag_row(W) == W.header_rows[1].cells

\* ws.coltags: loads the data when there is none, then computes the keys
\* from get_row(1); blank_coltags[i] raises IndexError for i past the table.
GetColtags ==
    LET W == Loaded
        tag_cells == tag_row(W)
        fails == coltags_fails(tag_cells, W.max_col)
    IN /\ coltags' = IF fails THEN [state |-> "IndexError", keys |-> <<>>]
                     ELSE [state |-> "ok", keys |-> get_coltags(tag_cells, W.max_col)]
       /\ err' = IF fails THEN "IndexError" ELSE "none"
       /\ clean' = (clean /\ ~fails)
       /\ op' = [NoOp EXCEPT !.name = "coltags"]
       /\ header_rows' = W.header_rows
       /\ rows' = W.rows
       /\ max_col' = W.max_col
       /\ cells_feed' = W.feed
       /\ fetches' = fetches + W.nfetch
       /\ has_data' = TRUE
       /\ calls' = <<>>
       /\ UNCHANGED <<remote, nheaders, list_feed, steps, row_count, opened, doc_key, retry>>

NextTags == Load \/ GetColtags

SpecTags == InitTags /\ [][NextTags]_vars

\* C12 as stated: computing column_keys never fails and returns exactly
\* max(len(H), FALLBACK_SIZE) keys, H the header row's texts.
C12_ColumnKeysAlwaysComputed ==
    op.name = "coltags" =>
        /\ coltags.state = "ok"
        /\ Len(coltags.keys) = Max(Len(HeadersNow), Len(blank_coltags))

\* The normalized token of header column k (1-based): the header text with
\* every character that is no letter, digit or hyphen removed; '' when the
\* header has no text there.
HeaderToken(k) ==
    IF k <= Len(HeadersNow) /\ HeadersNow[k].text # E THEN StripTag(HeadersNow[k].text)
    ELSE E

\* The 1-based occurrence count of the token of column k among columns 1..k.
Occurrence(k) == Cardinality({j \in 1..k : HeaderToken(j) = HeaderToken(k)})

----------------------------------------------------------------------------
(* Obtaining a Worksheet, reading it and reloading it.                      *)

\* Largest header count a caller asks for.
MaxHeaderCount == 3
\* Number of GetCellsFeed calls after which reload is no longer offered.
MaxFetches == 2

\* "#gid=" and the keys a caller passes: the bare document id, the id with
\* a fragment, the document's URL with and without a fragment, and the id
\* followed by a fragment without digits.
GidMark == <<"#", "g", "i", "d", "=">>
KeyUrl == <<"h", "t", "t", "p", "s", ":", "/", "/", "d", "o", "c", "s", ".", "e", "x", "a", "m", "p", "l", "e", ".", "c", "o", "m", "/", ".", ".", ".", "/", "c", "c", "c", "?", "k", "e", "y", "=", "A", "B", "C", "1", "2", "3">>
KeyUrlGid == KeyUrl \o GidMark \o <<"7">>
KeyGid == DocId \o GidMark \o <<"7">>
KeyNoDigits == DocId \o GidMark
OpenKeys == {DocId, KeyGid, KeyUrl, KeyUrlGid, KeyNoDigits}

\* re.sub(r'\#gid=\d+$', '', key): "#gid=" and one or more digits at the
\* end of the key are removed.
GidAt(t, p) ==
    /\ p + Len(GidMark) <= Len(t)
    /\ SubSeq(t, p, p + Len(GidMark) - 1) = GidMark
    /\ \A k \in (p + Len(GidMark))..Len(t) : t[k] \in DigitChars
StripGid(t) ==
    IF \E p \in 1..Len(t) : GidAt(t, p)
    THEN SubSeq(t, 1, (CHOOSE p \in 1..Len(t) : GidAt(t, p)) - 1)
    ELSE t

\* The sheet the document holds, before any Worksheet object exists.
OpenSheets == {SheetNameAge, SheetBlankHeader}

InitOpen ==
    /\ remote \in OpenSheets
    /\ row_count = GridRows(remote)
    /\ nheaders = 1
    /\ opened = "no"
    /\ doc_key = E
    /\ Unloaded

\* The state of a Worksheet object after __init__(key, gdata_ws, nheaders=n)
\* over a remote worksheet of rc rows: ValueError when rc < n.
Construct(rc, n) == IF rc < n THEN "ValueError" ELSE "yes"

OpenUnchanged ==
    UNCHANGED <<has_data, header_rows, rows, max_col, list_feed, calls, clean, steps,
                cells_feed, fetches, coltags, retry>>

\* Worksheet(key, gdata_ws, nheaders=n), called directly.
OpenByConstructor ==
    /\ opened = "no"
    /\ \E key \in {DocId}, n \in 1..MaxHeaderCount :
          /\ opened' = Construct(row_count, n)
          /\ nheaders' = IF Construct(row_count, n) = "yes" THEN n ELSE nheaders
          /\ op' = [NoOp EXCEPT !.name = "Worksheet", !.key = StrV(key), !.val = IntV(n)]
    /\ err' = IF opened' = "yes" THEN "none" ELSE opened'
    /\ OpenUnchanged
    /\ UNCHANGED <<remote, row_count, doc_key>>

\* add_worksheet(key, title, rows, cols, nheaders=n): the remote adds an
\* empty worksheet of the rows asked for, and the Worksheet is constructed
\* over it.
OpenByAddWorksheet ==
    /\ opened = "no"
    /\ \E key \in {DocId}, n \in 1..MaxHeaderCount, rc \in 1..2 :
          /\ remote' = {}
          /\ row_count' = rc
          /\ opened' = Construct(rc, n)
          /\ nheaders' = IF Construct(rc, n) = "yes" THEN n ELSE nheaders
          /\ op' = [NoOp EXCEPT !.name = "add_worksheet", !.key = StrV(key), !.val = IntV(n)]
    /\ err' = IF opened' = "yes" THEN "none" ELSE opened'
    /\ OpenUnchanged
    /\ UNCHANGED doc_key

\* worksheets(key): the fragment is stripped from the key, the key goes to
\* GetWorksheetsFeed, and the document's worksheet is constructed with the
\* default nheaders = 1.
OpenByWorksheets ==
    /\ opened = "no"
    /\ \E key \in OpenKeys :
          /\ doc_key' = StripGid(key)
          /\ op' = [NoOp EXCEPT !.name = "worksheets", !.key = StrV(key), !.val = IntV(1)]
    /\ opened' = Construct(row_count, 1)
    /\ nheaders' = 1
    /\ err' = IF opened' = "yes" THEN "none" ELSE opened'
    /\ OpenUnchanged
    /\ UNCHANGED <<remote, row_count>>

\* worksheet(key, nheaders=n): worksheets(key), then the one Worksheet of
\* the list gets ws.nheaders = n (lines 158-159, 173-174) and is returned.
OpenByWorksheet ==
    /\ opened = "no"
    /\ \E key \in {DocId, KeyUrlGid}, n \in 1..MaxHeaderCount :
          /\ doc_key' = StripGid(key)
          /\ opened' = Construct(row_count, 1)
          /\ nheaders' = IF Construct(row_count, 1) = "yes" THEN n ELSE nheaders
          /\ op' = [NoOp EXCEPT !.name = "worksheet", !.key = StrV(key), !.val = IntV(n)]
    /\ err' = IF opened' = "yes" THEN "none" ELSE opened'
    /\ OpenUnchanged
    /\ UNCHANGED <<remote, row_count>>

\* The reads: each begins with "if (not self.has_data()): self.load_data()".
ReadKinds == {"rows", "headers", "coltags"}

Access ==
    /\ opened = "yes"
    /\ \E kind \in ReadKinds : Commit(Loaded, [NoOp EXCEPT !.name = kind])
    /\ UNCHANGED steps

\* Worksheet.reload(): _cells_feed and _list_feed are set to None and the
\* cell feed is fetched again; _max_col keeps its value.
reload(W, nh) ==
    LET w == get_cells_feed(W.remote, nh, W.max_col)
    IN [W EXCEPT !.list_feed = NoList, !.header_rows = w.header_rows, !.rows = w.rows,
                 !.max_col = w.max_col, !.feed = CellFeed(W.remote), !.nfetch = @ + 1]

Reload ==
    /\ opened = "yes"
    /\ fetches < MaxFetches
    /\ Commit(reload(Cur, nheaders), [NoOp EXCEPT !.name = "reload"])
    /\ UNCHANGED steps

NextOpen ==
    \/ OpenByConstructor
    \/ OpenByAddWorksheet
    \/ OpenByWorksheets
    \/ OpenByWorksheet
    \/ Access
    \/ SetItem
    \/ Reload

SpecOpen == InitOpen /\ [][NextOpen]_vars

----------------------------------------------------------------------------
\* The calls that return a Worksheet.
OpenKinds == {"Worksheet", "add_worksheet", "worksheets", "worksheet"}

\* C14: constructing a Worksheet fetches no cells and leaves has_data()
\* false; a read fetches the cells exactly once when the worksheet holds no
\* data and not at all when it does; only reload() fetches again.
C14_OneFetchUntilReload ==
    [][/\ opened = "no" => fetches = 0 /\ ~has_data
       /\ op'.name \in OpenKinds => fetches' = 0 /\ ~has_data'
       /\ op'.name \in ReadKinds =>
             /\ has_data'
             /\ fetches' = IF has_data THEN fetches ELSE fetches + 1
       /\ fetches' # fetches /\ has_data => op'.name = "reload"]_vars

\* A read of coltags after a load and a cell write: still one fetch.
C14_Witness ==
    /\ op.name = "coltags"
    /\ has_data
    /\ steps = 1
    /\ fetches = 1

\* C15 as stated: after reload() the cache is what a freshly constructed
\* worksheet holds after loading the remote's current contents: header
\* rows, data rows, max_col_seen, and no list feed.
C15_ReloadEqualsFreshLoad ==
    [][op'.name = "reload" =>
          LET fresh == get_cells_feed(remote', nheaders', 0)
          IN /\ header_rows' = fresh.header_rows
             /\ rows' = fresh.rows
             /\ max_col' = fresh.max_col
             /\ list_feed' = NoList]_vars

\* C17 as stated: no Worksheet whose header count exceeds its remote row
\* count is returned, and asking for one raises the configuration error.
C17_HeaderCountChecked ==
    /\ opened = "yes" => nheaders <= row_count
    /\ (op.name \in OpenKinds /\ op.val.n > row_count) => opened = "ValueError"

\* C19 as stated: worksheets(key) and worksheet(key) with the key in URL
\* form and a trailing #gid=<digits> pass the document id to the remote.
C19_UrlKeyResolvesToDocId ==
    (op.name \in {"worksheets", "worksheet"} /\ op.key.text = KeyUrlGid) => doc_key = DocId

----------------------------------------------------------------------------
(* set_row and append with a mapping (RowData.__init__ lines 600-608). *)

\* The mappings a caller passes: functions from some keys to values.
MapKeys == {Name, NaMe, Age, Ann}
MapVals == {NoneV, StrV(T31)}
Mappings == UNION {[S -> MapVals] : S \in {T \in SUBSET MapKeys : Cardinality(T) <= 2}}

\* The number of set_row and append calls of a run.
MaxMapOps == 1

\* The worksheets the mappings are applied to.
SheetNaMeAge == {RCell(1, 1, NaMe), RCell(1, 2, Age), RCell(2, 1, Ann), RCell(2, 2, T30)}
MapSheets == {[cells |-> SheetNameAge, nheaders |-> 1],
              [cells |-> SheetNaMeAge, nheaders |-> 1],
              [cells |-> SheetTwoHeaders, nheaders |-> 2]}

InitMapping ==
    /\ \E sheet \in MapSheets : remote = sheet.cells /\ nheaders = sheet.nheaders
    /\ row_count = GridRows(remote)
    /\ opened = "yes"
    /\ doc_key = DocId
    /\ Unloaded

\* The membership test of line 604 made against worksheet.coltags.
MapKeyKnown_by_coltag(W, key) ==
    LET tags == get_coltags(W.header_rows[1].cells, W.max_col)
    IN \E i \in 1..Len(tags) : tags[i] = key

\* "key in worksheet.headers" of line 604: the key equals the text of a
\* cell of the last header row.
MapKeyKnown(W, key) == HeaderIndex(HeaderCells(W), key) >= 0

\* RowData(worksheet, data) for a mapping whose keys are all known: one item
\* per slot of worksheet.headers, None where no key with a value other than
\* None and '' names the slot, else RowDataVal(i, val) with its coltag.
RowDataOfMap(W, data) ==
    LET hcells == HeaderCells(W)
        tags == get_coltags(W.header_rows[1].cells, W.max_col)
        KeysAt(k) == {key \in DOMAIN data : /\ HeaderIndex(hcells, key) = k - 1
                                            /\ Normalize(data[key]) # E}
    IN [k \in 1..Len(hcells) |->
          IF KeysAt(k) = {}
          THEN [none |-> TRUE, icol |-> k - 1, val |-> E, coltag |-> E]
          ELSE [none |-> FALSE, icol |-> k - 1,
                val |-> Normalize(data[CHOOSE key \in KeysAt(k) : TRUE]),
                coltag |-> IF k <= Len(tags) THEN tags[k] ELSE E]]

\* Worksheet.get_row(row_num) as a reference into the cache.
RowRef(nh, row_num) == IF row_num <= nh THEN HdrRef(row_num) ELSE DataRef(row_num - nh)

\* The loop of set_row (lines 509-510) from item k on:
\* "if (row[i] != val): row[i] = val", val being None or a RowDataVal.
RECURSIVE SetRowFrom(_, _, _, _, _)
SetRowFrom(W, o, ref, row_data, k) ==
    IF k > Len(row_data) \/ W.err # "none" THEN W
    ELSE LET item == row_data[k]
             slot == getitem(RowAt(W, ref).cells, k - 1)
             differs == IF item.none THEN slot.kind # "none"
                        ELSE ~SameValue(item.val, slot)
         IN SetRowFrom(IF differs
                       THEN setitem(W, o, ref, IntV(k - 1),
                                    IF item.none THEN NoneV ELSE StrV(item.val))
                       ELSE W,
                       o, ref, row_data, k + 1)

\* Worksheet.set_row(row_num, data) with a mapping, on a loaded worksheet.
set_row(W, o, nh, row_num, data) ==
    IF \E key \in DOMAIN data : ~MapKeyKnown(W, key) THEN Raise(W, "ValueError")
    ELSE IF coltags_fails(W.header_rows[1].cells, W.max_col) THEN Raise(W, "IndexError")
    ELSE SetRowFrom(W, o, RowRef(nh, row_num), RowDataOfMap(W, data), 1)

\* Worksheet.append(data, overwrite) with a mapping: get_insert_vals reads
\* item.val of every item, an AttributeError on an item that is None; with
\* every slot set the RowData is that of the sequence of its values.
append_mapping(W, o, nh, data, overwrite) ==
    IF \E key \in DOMAIN data : ~MapKeyKnown(W, key) THEN Raise(W, "ValueError")
    ELSE IF coltags_fails(W.header_rows[1].cells, W.max_col) THEN Raise(W, "IndexError")
    ELSE LET row_data == RowDataOfMap(W, data)
             blank == BlankFrom(W.header_rows, 1)
             refs == [k \in 1..Len(blank) |-> HdrRef(blank[k])]
             W1 == SetEach(W, o, refs, IntV(0), StrV(SP))
         IN IF \E k \in 1..Len(row_data) : row_data[k].none
            THEN (IF W1.err # "none" THEN W1 ELSE Raise(W1, "AttributeError"))
            ELSE append(W, o, nh, [k \in 1..Len(row_data) |-> StrV(row_data[k].val)],
                        overwrite)

\* ws.set_row(row_num, data)
SetRowMapping ==
    /\ steps < MaxMapOps
    /\ \E data \in Mappings, row_num \in 1..(nheaders + Len(Loaded.rows)), o \in SetOracles :
          Commit(set_row(Loaded, o, nheaders, row_num, data),
                 [NoOp EXCEPT !.name = "set_row", !.ref = RowRef(nheaders, row_num),
                              !.vals = data])
    /\ steps' = steps + 1

\* ws.append(data, overwrite)
AppendMapping ==
    /\ steps < MaxMapOps
    /\ Len(Loaded.rows) < MaxDataRows
    /\ \E data \in Mappings, overwrite \in BOOLEAN :
       \E o \in AppendOracles(<<StrV(T31)>>, overwrite) :
          Commit(append_mapping(Loaded, o, nheaders, data, overwrite),
                 [NoOp EXCEPT !.name = "append_mapping", !.vals = data,
                              !.overwrite = overwrite])
    /\ steps' = steps + 1

NextMapping == Load \/ SetRowMapping \/ AppendMapping

SpecMapping == InitMapping /\ [][NextMapping]_vars

MappingStep == op'.name \in {"set_row", "append_mapping"}

\* The texts of worksheet.headers and the keys of worksheet.coltags as the
\* operation finds them (after the load it makes when there is no data).
HeaderTextsBefore ==
    {HeaderCells(Loaded)[i].text : i \in {j \in 1..Len(HeaderCells(Loaded)) :
                                              HeaderCells(Loaded)[j].kind # "none"}}
ColumnKeysBefore ==
    LET tags == get_coltags(Loaded.header_rows[1].cells, Loaded.max_col)
    IN {tags[i] : i \in 1..Len(tags)}

\* A rejected mapping: no call to the remote store, the cache as it was.
RejectedCleanly ==
    /\ calls' = <<>>
    /\ remote' = remote
    /\ header_rows' = Loaded.header_rows
    /\ rows' = Loaded.rows
    /\ max_col' = Loaded.max_col
    /\ list_feed' = list_feed

\* C16 as stated: set_row and append accept a mapping exactly when every key
\* is one of the column keys ColumnTagger produces, and a rejected mapping
\* causes no remote call and leaves the cache unchanged.
C16_MappingKeysAreColumnKeys ==
    [][MappingStep
          => /\ (err' # "ValueError") <=> (DOMAIN op'.vals \subseteq ColumnKeysBefore)
             /\ err' = "ValueError" => RejectedCleanly]_vars

\* C16 amended: set_row and append accept a mapping exactly when every key
\* equals the text of a cell of the last header row; a rejected mapping
\* raises ValueError with no update or insert call and the cache unchanged.
C16_MappingKeysAreHeaderTexts ==
    [][MappingStep
          => /\ (err' # "ValueError") <=> (DOMAIN op'.vals \subseteq HeaderTextsBefore)
             /\ err' = "ValueError" => RejectedCleanly]_vars

C16_Witness ==
    /\ op.name = "set_row" /\ err = "ValueError"
    /\ has_data /\ steps = 1 /\ calls = <<>>
    /\ DOMAIN op.vals = {Name, Age}
    /\ HeaderCells(Cur)[1].text = NaMe

----------------------------------------------------------------------------
(* The shape of the Rows. *)

\* C18 as stated: every Row of the cache, header or data, is empty or ends
\* with a non-empty cell; it has no trailing empty slot or empty text.
C18_RowsTrimmed ==
    /\ \A i \in 1..Len(header_rows) :
          header_rows[i].cells = <<>> \/ Truthy(header_rows[i].cells[Len(header_rows[i].cells)])
    /\ \A i \in 1..Len(rows) :
          rows[i].cells = <<>> \/ Truthy(rows[i].cells[Len(rows[i].cells)])

----------------------------------------------------------------------------
(* Loading from a cell feed whose entries arrive in any order. *)

\* The entries of the cell feed in every order the remote may send them.
FeedOrders(rem) ==
    LET base == CellFeed(rem)
    IN {[k \in 1..Len(base) |-> base[p[k]]] : p \in Permutations(1..Len(base))}

\* The header counts a worksheet is opened with.
LoadHeaderCounts == 1..MaxHeaderCount

InitLoad ==
    /\ \E sheet \in InitSheets, n \in LoadHeaderCounts :
          remote = sheet.cells /\ nheaders = n
    /\ row_count = Max(GridRows(remote), nheaders)
    /\ opened = "yes"
    /\ doc_key = DocId
    /\ Unloaded

\* Worksheet.load_data on a worksheet without data, the feed in any order.
LoadAnyOrder ==
    /\ ~has_data
    /\ \E feed \in FeedOrders(remote) :
          LET w == LoadCells(feed, 1, [header_rows |-> <<>>, rows |-> <<>>,
                                       max_col |-> max_col], nheaders)
          IN /\ header_rows' = w.header_rows
             /\ rows' = w.rows
             /\ max_col' = w.max_col
             /\ cells_feed' = feed
    /\ has_data' = TRUE
    /\ fetches' = fetches + 1
    /\ op' = [NoOp EXCEPT !.name = "load"]
    /\ UNCHANGED <<remote, nheaders, list_feed, calls, err, clean, steps, row_count,
                   opened, doc_key, coltags, retry>>

NextLoad == LoadAnyOrder

SpecLoad == InitLoad /\ [][NextLoad]_vars

\* The Row of the cache that holds sheet row r.
CacheRow(r) == IF r <= nheaders THEN header_rows[r] ELSE rows[r - nheaders]

\* The cells of the remote seen in the slots of a Row of the cache.
SlotsOf(row) ==
    {[row |-> row.row, col |-> c, text |-> row.cells[c].text] :
        c \in {d \in 1..Len(row.cells) : row.cells[d].kind # "none"}}

\* C20: whatever the order of the feed entries, the loaded cache has exactly
\* header_count header Rows, every Row numbered by its position, every cell
\* (row, col) of the feed in slot col-1 of header Row row or of data Row
\* row - header_count, every other slot empty, the data Rows reaching to the
\* last row that has a cell, and it equals the cache built from the feed in
\* row-major order.
C20_LoadOrderIndependent ==
    has_data =>
        /\ Len(header_rows) = nheaders
        /\ \A i \in 1..Len(header_rows) : header_rows[i].row = i
        /\ \A i \in 1..Len(rows) : rows[i].row = nheaders + i
        /\ Len(rows) = Max(0, RemoteLastRow(remote) - nheaders)
        /\ \A x \in remote :
              /\ x.row <= nheaders + Len(rows)
              /\ getitem(CacheRow(x.row).cells, x.col - 1) = Cell(x.text, x.row, x.col)
        /\ UNION ({SlotsOf(header_rows[i]) : i \in 1..Len(header_rows)}
                  \cup {SlotsOf(rows[i]) : i \in 1..Len(rows)}) = remote
        /\ \A i \in 1..Len(rows) : \A c \in 1..Len(rows[i].cells) :
              rows[i].cells[c].kind \in {"none", "cell"}
        /\ LET w == get_cells_feed(remote, nheaders, 0)
           IN /\ header_rows = w.header_rows
              /\ rows = w.rows
              /\ max_col = w.max_col

C20_Witness ==
    /\ has_data
    /\ remote = SheetBlankRow /\ nheaders = 1
    /\ cells_feed # CellFeed(remote)
    /\ cells_feed[1] = RCell(4, 2, T31)
    /\ Len(rows) = 3 /\ rows[2].cells = <<>>
    /\ rows[3].cells = <<NoSlot, Cell(T31, 4, 2)>>

----------------------------------------------------------------------------
(* The blank header rows during append. *)

\* The header rows that are fully empty when the operation starts.
BlankHeaderRows ==
    {r \in 1..Len(Loaded.header_rows) : Loaded.header_rows[r].cells = <<>>}

\* Call p of the step is update_cell(r, c, v) and it succeeded.
UpdateAt(p, r, c, v) ==
    /\ calls'[p].fn = "update_cell" /\ calls'[p].ok
    /\ <<calls'[p].row, calls'[p].col, calls'[p].value>> = <<r, c, v>>

\* C21: in an append that starts with a fully empty header row, every
\* insert_row call is preceded by a successful write of a single space into
\* column 1 of that header row, and when append returns the header row is
\* empty again in the cache and in the remote cells.
C21_BlankHeaderFilledAndRestored ==
    [][AppendStep =>
          \A r \in BlankHeaderRows :
             /\ \A p \in 1..Len(calls') :
                   calls'[p].fn = "insert_row" => \E q \in 1..(p - 1) : UpdateAt(q, r, 1, SP)
             /\ err' = "none" =>
                   /\ \E p \in 1..Len(calls') : calls'[p].fn = "insert_row"
                   /\ header_rows'[r].cells = <<>>
                   /\ RemoteRowBlank(remote', r)]_vars

C21_Witness ==
    /\ op.name = "append" /\ err = "none" /\ steps = 1
    /\ op.vals = <<StrV(Bob), IntV(31)>>
    /\ header_rows[1].cells = <<>> /\ RemoteRowBlank(remote, 1)
    /\ Len(calls) >= 3
    /\ <<calls[1].fn, calls[1].row, calls[1].col, calls[1].value>> = <<"update_cell", 1, 1, SP>>
    /\ calls[2].fn = "insert_row"
    /\ <<calls[3].fn, calls[3].row, calls[3].col, calls[3].value>> = <<"update_cell", 1, 1, E>>

----------------------------------------------------------------------------
(* The column keys of a worksheet with several header rows. *)

\* The texts of sheet rows 1 and 2.
RowTexts == {<<>>, <<Name>>, <<Age>>, <<Name, Age>>, <<NaMe, Name>>, <<E, Age>>, <<Bang, Name>>}

\* The remote cells of a worksheet whose first two rows hold H1 and H2.
TwoRowSheet(H1, H2) ==
    {RCell(1, k, H1[k]) : k \in {j \in 1..Len(H1) : H1[j] # E}}
    \cup {RCell(2, k, H2[k]) : k \in {j \in 1..Len(H2) : H2[j] # E}}

InitTagRows ==
    /\ \E H1 \in RowTexts, H2 \in RowTexts : remote = TwoRowSheet(H1, H2)
    /\ nheaders \in 1..MaxHeaderCount
    /\ row_count = Max(GridRows(remote), nheaders)
    /\ opened = "yes"
    /\ doc_key = DocId
    /\ Unloaded

NextTagRows == Load \/ GetColtags

SpecTagRows == InitTagRows /\ [][NextTagRows]_vars

\* The key of column k (1-based) that the header cells give: the text with
\* every character that is no letter, digit or hyphen removed, followed by
\* _n at its n-th occurrence, or entry k of blank_coltags when nothing is left.
KeyFrom(cells, k) ==
    LET tok(j) == IF j <= Len(cells) /\ Truthy(cells[j]) THEN StripTag(cells[j].text) ELSE E
        occ == Cardinality({j \in 1..k : tok(j) = tok(k)})
    IN IF tok(k) = E THEN blank_coltags[k]
       ELSE IF occ = 1 THEN tok(k)
       ELSE tok(k) \o <<"_">> \o IntToText(occ)

\* C22 as stated: the column keys are those of the header row that headers
\* returns, the last header row.
C22_KeysFromLastHeaderRow ==
    (op.name = "coltags" /\ coltags.state = "ok") =>
        \A k \in 1..Len(coltags.keys) : coltags.keys[k] = KeyFrom(HeadersNow, k)

\* C22 amended: the column keys are those of sheet row 1, the first header
\* row, whatever the header count.
C22_KeysFromFirstRow ==
    (op.name = "coltags" /\ coltags.state = "ok") =>
        /\ Len(coltags.keys) = Max(max_col, Len(blank_coltags))
        /\ \A k \in 1..Len(coltags.keys) : coltags.keys[k] = KeyFrom(header_rows[1].cells, k)

\* Rows [Name, Age] and ["Na me", Name] opened with two header rows: the
\* keys are Name and Age, those of row 1.
C22_Witness ==
    /\ op.name = "coltags" /\ coltags.state = "ok"
    /\ nheaders = 2
    /\ remote = TwoRowSheet(<<Name, Age>>, <<NaMe, Name>>)
    /\ HeadersNow[1].text = NaMe
    /\ coltags.keys[1] = Name /\ coltags.keys[2] = Age

----------------------------------------------------------------------------
(* Fetching the list feed. *)

\* A header row with an empty slot between two filled ones.
SheetGapHeader == {RCell(1, 1, Name), RCell(1, 3, Age), RCell(2, 1, Ann), RCell(4, 1, Bob)}
ListFeedSheets == {SheetNameAge, SheetBlankRow, SheetBlankHeader, SheetGapHeader}

InitListFeed ==
    /\ remote \in ListFeedSheets
    /\ nheaders = 1
    /\ row_count = GridRows(remote)
    /\ opened = "yes"
    /\ doc_key = DocId
    /\ Unloaded

\* The answers of the remote while the list feed is fetched: every
\* UpdateCell succeeds, or the first or the second fails.
ListFeedOracles == {Oracle(f, 1, FALSE, {}) : f \in 0..2}

\* ws.list_feed
FetchListFeed ==
    /\ \E o \in ListFeedOracles :
          Commit(get_list_feed(Loaded, o), [NoOp EXCEPT !.name = "list_feed"])
    /\ UNCHANGED steps

NextListFeed == Load \/ SetItem \/ FetchListFeed

SpecListFeed == InitListFeed /\ [][NextListFeed]_vars

\* The data Rows that are empty when the operation starts, by row number.
BlankDataRows == {Loaded.rows[i].row : i \in {j \in 1..Len(Loaded.rows) : Loaded.rows[j].cells = <<>>}}

\* C23 as stated: the first fetch of the list feed that no remote failure
\* stops succeeds; every blank data row held a single space in its first
\* cell when the feed was read (it was written before, cleared after, and
\* the row's entry shows it), and afterwards the cache and the remote cells
\* are as they were.
C23_ListFeedFetchSucceeds ==
    [][(op'.name = "list_feed" /\ ~list_feed.loaded /\ err' # "remote")
          => /\ err' = "none"
             /\ list_feed'.loaded
             /\ \A r \in BlankDataRows :
                   /\ \E p, q \in 1..Len(calls') :
                         p < q /\ UpdateAt(p, r, 1, SP) /\ UpdateAt(q, r, 1, E)
                   /\ r - 1 <= Len(list_feed'.entry)
                   /\ [col |-> 1, text |-> SP] \in list_feed'.entry[r - 1].custom
             /\ header_rows' = Loaded.header_rows
             /\ rows' = Loaded.rows
             /\ max_col' = Loaded.max_col
             /\ remote' = remote]_vars

----------------------------------------------------------------------------
(* An append that fails at its insert. *)

\* The append raised while building the insert arguments (NameError of
\* get_insert_vals) or in InsertRow itself.
FailedAtInsert ==
    /\ AppendStep
    /\ \/ err' = "NameError"
       \/ /\ err' = "remote" /\ calls' # <<>>
          /\ calls'[Len(calls')].fn = "insert_row" /\ ~calls'[Len(calls')].ok

\* C24 as stated: an append that fails at or before its insert call leaves
\* the cache and the remote cells as they were before the call: no data Row
\* is added and no header row keeps the temporary space.
C24_FailedAppendLeavesNoTrace ==
    [][FailedAtInsert
          => /\ remote' = remote
             /\ header_rows' = Loaded.header_rows
             /\ rows' = Loaded.rows
             /\ max_col' = Loaded.max_col]_vars

----------------------------------------------------------------------------
(* The cached list feed across appends and deletes. *)

\* Runs of list-feed reads, appends and deletes only.
NextFeedRows == Load \/ FetchListFeed \/ AppendRow \/ DeleteRow

SpecFeedRows == Init /\ [][NextFeedRows]_vars

\* The cached list feed holds one entry per data Row, and the entry at
\* index row_number - 2 holds the values the remote has in that row.
ListFeedTracksRows ==
    /\ Len(list_feed.entry) = Len(rows)
    /\ \A i \in 1..Len(rows) :
          (rows[i].row - 1 \in 1..Len(list_feed.entry) /\ ~RemoteRowBlank(remote, rows[i].row))
             => EntryValues(list_feed.entry[rows[i].row - 1])
                   = EntryValues(ListEntry(remote, rows[i].row))

\* C25 as stated: with one header row and the list feed cached, the feed
\* holds exactly one entry per data Row, in row order, after every append
\* and delete, and a delete of a data Row whose remote calls succeed finds
\* and reconciles that Row's entry: it raises neither IndexError nor the
\* consistency error.
C25_ListFeedFollowsAppends ==
    /\ []((list_feed.loaded /\ nheaders = 1 /\ clean) => ListFeedTracksRows)
    /\ [][(DeleteStep /\ list_feed.loaded /\ nheaders = 1 /\ clean)
             => err' \notin {"IndexError", "ValueError"}]_vars

----------------------------------------------------------------------------
(* append with a mapping that names only some of the columns. *)

\* The keys of the step's mapping that carry a value other than None and ''.
SuppliedKeys == {key \in DOMAIN op'.vals : Normalize(op'.vals[key]) # E}

\* The column (0-based) a key of the mapping names, in the headers the
\* operation finds.
SuppliedColumn(key) == HeaderIndex(HeaderCells(Loaded), key)

\* An append with a mapping whose keys are all header texts and which
\* supplies a value for some, not all, of the header's columns.
PartialMappingAppend ==
    /\ op'.name = "append_mapping"
    /\ DOMAIN op'.vals \subseteq HeaderTextsBefore
    /\ SuppliedKeys # {}
    /\ \E k \in 1..Len(HeaderCells(Loaded)) :
          \A key \in SuppliedKeys : SuppliedColumn(key) # k - 1

\* C26 as stated: such an append, when no remote call fails, completes
\* without error, issues insert_row with exactly the supplied values, and
\* leaves a new last Row holding each supplied value at its column and
\* empty slots elsewhere.
C26_PartialMappingAppends ==
    [][(PartialMappingAppend /\ err' # "remote")
          => /\ err' = "none"
             /\ \E p \in 1..Len(calls') :
                   /\ calls'[p].fn = "insert_row"
                   /\ {<<x.icol, x.val>> : x \in calls'[p].named}
                         = {<<SuppliedColumn(key), Normalize(op'.vals[key])>> : key \in SuppliedKeys}
             /\ Len(rows') = Len(Loaded.rows) + 1
             /\ \A k \in 1..Len(HeaderCells(Loaded)) :
                   LET slot == getitem(rows'[Len(rows')].cells, k - 1)
                   IN IF \E key \in SuppliedKeys : SuppliedColumn(key) = k - 1
                      THEN \E key \in SuppliedKeys :
                              SuppliedColumn(key) = k - 1 /\ slot.text = Normalize(op'.vals[key])
                      ELSE ~Truthy(slot)]_vars

====
